---- MODULE Spec2Model ----
(***************************************************************************)
(* Model of src/app.py (InfiLib, a Streamlit learning-path generator).     *)
(*                                                                         *)
(* Two parts:                                                              *)
(*   - the response normalizer (extract_json_from_text and                 *)
(*     parse_json_response), pure functions over token sequences, checked  *)
(*     under SpecParse;                                                    *)
(*   - the script main(), which Streamlit re-executes from the top after   *)
(*     every user interaction, with st.session_state and the widget state  *)
(*     surviving between executions, checked under Spec.                   *)
(*                                                                         *)
(* A text is a sequence of tokens. Braces and brackets are the characters  *)
(* themselves; a key token stands for a quoted member name followed by     *)
(* its colon; an atom stands for a JSON string literal; the remaining      *)
(* tokens are whitespace, prose and code-fence markers. Commas are part of *)
(* the tokenisation and are not represented.                               *)
(***************************************************************************)
EXTENDS Integers, Sequences, FiniteSets, TLC

\* ------------------------------------------------------------------------
\* Bounds
\* ------------------------------------------------------------------------
MaxPrefix == 2
MaxSuffix == 1
MaxRuns == 3

\* ------------------------------------------------------------------------
\* Tokens
\* ------------------------------------------------------------------------
StageKeys == {"prerequisites", "subtopics", "roadmap", "textbooks", "papers",
              "youtube", "courses", "interactive_platforms"}

ItemKeys == {"topic", "level", "week", "hours_per_week", "goals",
             "activities", "exercises", "project", "title", "author",
             "authors", "link", "platform", "name", "description"}

Keys == StageKeys \cup ItemKeys

Atoms == {"a", "b"}

Whitespace == {" "}

Prose == {"w", "fence_json", "fence"}

\* ------------------------------------------------------------------------
\* Python values, as json.loads builds them
\* ------------------------------------------------------------------------
Atom(a) == [k |-> "atom", v |-> a]

List(s) == [k |-> "list", v |-> s]

Obj(f) == [k |-> "obj", v |-> f]

EmptyDict == Obj(<<>>)

\* dict item assignment d[key] = val: a repeated member name keeps the last
Put(f, key, val) ==
  [x \in (DOMAIN f) \cup {key} |-> IF x = key THEN val ELSE f[x]]

IsDict(x) == x.k = "obj"

IsList(x) == x.k = "list"

IsAtom(x) == x.k = "atom"

\* bool(x): an empty list or dict is false, a non-empty string is true
Truthy(x) == IF IsAtom(x) THEN TRUE ELSE x.v # <<>>

\* key in d
Has(d, key) == key \in DOMAIN d.v

\* ------------------------------------------------------------------------
\* str methods
\* ------------------------------------------------------------------------
RECURSIVE LStrip(_)
LStrip(t) ==
  IF t # <<>> /\ Head(t) \in Whitespace THEN LStrip(Tail(t)) ELSE t

RECURSIVE RStrip(_)
RStrip(t) ==
  IF t # <<>> /\ t[Len(t)] \in Whitespace
    THEN RStrip(SubSeq(t, 1, Len(t) - 1))
    ELSE t

\* str.strip()
Strip(t) == RStrip(LStrip(t))

\* str.find(c): 0-based index of the first occurrence, -1 when absent
Find(t, c) ==
  IF \E i \in 1..Len(t) : t[i] = c
    THEN (CHOOSE i \in 1..Len(t) :
            t[i] = c /\ \A j \in 1..(i - 1) : t[j] # c) - 1
    ELSE -1

\* str.rfind(c): 0-based index of the last occurrence, -1 when absent
RFind(t, c) ==
  IF \E i \in 1..Len(t) : t[i] = c
    THEN (CHOOSE i \in 1..Len(t) :
            t[i] = c /\ \A j \in (i + 1)..Len(t) : t[j] # c) - 1
    ELSE -1

\* text[start:end] for 0 <= start, 0 <= end (0-based, end exclusive)
Slice(t, start, end) ==
  LET hi == IF end > Len(t) THEN Len(t) ELSE end
  IN  IF start >= hi THEN <<>> ELSE SubSeq(t, start + 1, hi)

\* c in text
Contains(t, c) == \E i \in 1..Len(t) : t[i] = c

\* ------------------------------------------------------------------------
\* json.loads
\* ------------------------------------------------------------------------
NoParse == [ok |-> FALSE, val |-> EmptyDict, next |-> 0]

RECURSIVE ParseValue(_, _)
RECURSIVE ParseItems(_, _, _)
RECURSIVE ParseMembers(_, _, _)

ParseValue(t, i) ==
  IF i > Len(t) THEN NoParse
  ELSE IF t[i] \in Atoms THEN [ok |-> TRUE, val |-> Atom(t[i]), next |-> i + 1]
  ELSE IF t[i] = "[" THEN ParseItems(t, i + 1, <<>>)
  ELSE IF t[i] = "{" THEN ParseMembers(t, i + 1, <<>>)
  ELSE NoParse

ParseItems(t, i, acc) ==
  IF i > Len(t) THEN NoParse
  ELSE IF t[i] = "]" THEN [ok |-> TRUE, val |-> List(acc), next |-> i + 1]
  ELSE LET r == ParseValue(t, i)
       IN  IF r.ok THEN ParseItems(t, r.next, Append(acc, r.val)) ELSE NoParse

ParseMembers(t, i, acc) ==
  IF i > Len(t) THEN NoParse
  ELSE IF t[i] = "}" THEN [ok |-> TRUE, val |-> Obj(acc), next |-> i + 1]
  ELSE IF t[i] \in Keys
    THEN LET r == ParseValue(t, i + 1)
         IN  IF r.ok THEN ParseMembers(t, r.next, Put(acc, t[i], r.val))
                     ELSE NoParse
  ELSE NoParse

\* json.loads(s): ok = FALSE stands for json.JSONDecodeError. Whitespace
\* between tokens is skipped; anything left after the value is an error.
JsonLoads(s) ==
  LET t == SelectSeq(s, LAMBDA c : c \notin Whitespace)
      r == ParseValue(t, 1)
  IN  IF r.ok /\ r.next = Len(t) + 1
        THEN [ok |-> TRUE, val |-> r.val]
        ELSE [ok |-> FALSE, val |-> EmptyDict]

\* ------------------------------------------------------------------------
\* extract_json_from_text, parse_json_response
\* ------------------------------------------------------------------------
\* the first closing brace instead of the last
ExtractEnd_First(t) == Find(t, "}") + 1

\* rfind as extract_json_from_text uses it
ExtractEnd(t) == RFind(t, "}") + 1

extract_json_from_text(text) ==
  LET start == Find(text, "{")
      end == ExtractEnd(text)
  IN  IF start # -1 /\ end # -1 THEN Slice(text, start, end) ELSE <<"{", "}">>

PrerequisitesDefault ==
  Obj([prerequisites |-> List(<<Obj([topic |-> Atom("Basic concepts"),
                                    level |-> Atom("Basic")])>>)])

SubtopicsDefault == Obj([subtopics |-> List(<<Atom("Basic concepts")>>)])

ResourcesDefault ==
  Obj([textbooks |-> List(<<Obj([title |-> Atom("Resource not available"),
                                author |-> Atom("N/A"),
                                link |-> Atom("#")])>>),
       papers |-> List(<<Obj([title |-> Atom("Resource not available"),
                             authors |-> Atom("N/A"),
                             link |-> Atom("#")])>>),
       youtube |-> Atom("https://youtube.com/watch?v=dQw4w9WgXcQ"),
       courses |-> List(<<Obj([title |-> Atom("Resource not available"),
                              platform |-> Atom("N/A"),
                              link |-> Atom("#")])>>),
       interactive_platforms |->
         List(<<Obj([name |-> Atom("Resource not available"),
                     description |-> Atom("N/A"),
                     link |-> Atom("#")])>>)])

\* the if/elif chain of the innermost except block
FallbackValue(response) ==
  IF Contains(response, "prerequisites") THEN PrerequisitesDefault
  ELSE IF Contains(response, "subtopics") THEN SubtopicsDefault
  ELSE IF Contains(response, "textbooks") THEN ResourcesDefault
  ELSE EmptyDict

\* the returned value, and whether st.warning was called
parse_json_response(response) ==
  LET cleaned_response == Strip(response)
      direct == JsonLoads(cleaned_response)
      json_str == extract_json_from_text(cleaned_response)
      extracted == JsonLoads(json_str)
  IN  IF direct.ok THEN [val |-> direct.val, warned |-> FALSE]
      ELSE IF extracted.ok THEN [val |-> extracted.val, warned |-> FALSE]
      ELSE [val |-> FallbackValue(response), warned |-> TRUE]

\* ------------------------------------------------------------------------
\* State
\* ------------------------------------------------------------------------
VARIABLES
  topic,              \* st.text_input: the topic field's value
  level_widget,       \* widget state of the selectboxes, by prerequisite name
  checked,            \* widget state of the checkboxes: the labels ticked
  chat_prompt,        \* st.chat_input: the message submitted for this run
  shown,              \* the widgets rendered by the current or last run
  responses,          \* st.session_state.responses
  prereq_levels,      \* st.session_state.prereq_levels
  messages,           \* st.session_state.messages
  pc,                 \* position of the script; "idle" between runs
  selected_subtopics, \* local of main()
  error_shown,        \* st.error was called in the current or last run
  warning_shown,      \* st.warning was called in the current or last run
  invoked,            \* llm.invoke calls issued, per stage
  succeeded,          \* llm.invoke calls that returned, per stage
  prompt_topic,       \* the topic in the prompt that produced a stored result
  runs,               \* script runs started
  prefix,             \* normalizer input: text before the body
  body,               \* normalizer input: the body
  suffix,             \* normalizer input: text after the body
  result,             \* normalizer output
  ppc                 \* normalizer: "ready" or "done"

widget_vars == <<topic, level_widget, checked, chat_prompt, shown>>

session_vars == <<responses, prereq_levels, messages>>

llm_vars == <<invoked, succeeded, prompt_topic>>

script_vars == <<pc, selected_subtopics, error_shown, warning_shown, runs>>

parse_vars == <<prefix, body, suffix, result, ppc>>

vars == <<widget_vars, session_vars, llm_vars, script_vars, parse_vars>>

\* ------------------------------------------------------------------------
\* Texts the LLM may return
\* ------------------------------------------------------------------------
PrereqItem(n, l) == <<"{", "topic", n, "level", l, "}">>

PrereqText(items) == <<"{", "prerequisites", "[">> \o items \o <<"]", "}">>

SubtopicsText(items) == <<"{", "subtopics", "[">> \o items \o <<"]", "}">>

WeekItem ==
  <<"{", "week", "a", "goals", "[", "a", "]", "activities", "[", "a", "]",
    "exercises", "[", "a", "]", "project", "a", "hours_per_week", "a", "}">>

RoadmapText(items) == <<"{", "roadmap", "[">> \o items \o <<"]", "}">>

ResourcesText ==
  <<"{", "textbooks", "[", "{", "title", "a", "author", "a", "link", "a", "}", "]",
    "papers", "[", "{", "title", "a", "authors", "a", "link", "a", "}", "]",
    "youtube", "a",
    "courses", "[", "{", "title", "a", "platform", "a", "link", "a", "}", "]",
    "interactive_platforms", "[",
    "{", "name", "a", "description", "a", "link", "a", "}", "]", "}">>

\* well-formed stage JSON, one per stage that is parsed
StageObjects ==
  { PrereqText(PrereqItem("a", "a") \o PrereqItem("b", "b")),
    SubtopicsText(<<"a", "b">>),
    RoadmapText(WeekItem),
    ResourcesText }

\* ------------------------------------------------------------------------
\* The normalizer on its own: SpecParse
\* ------------------------------------------------------------------------
AffixTokens ==
  {"{", "}", "[", "]", "a", "w", " ", "fence_json", "fence", "prerequisites"}

RECURSIVE TextsUpTo(_)
TextsUpTo(n) ==
  IF n = 0 THEN {<<>>}
  ELSE LET shorter == TextsUpTo(n - 1)
       IN  shorter \cup {Append(t, c) : t \in shorter, c \in AffixTokens}

Bodies ==
  StageObjects \cup
  { <<>>, <<"{", "}">>, <<"a">>, <<"{", "topic", "a", "}">>,
    <<"[", "{", "}", "]">>, <<"{", "prerequisites", "[">>,
    <<"w", "subtopics">>, <<"textbooks", "{">>, <<"w", "roadmap">> }

SessionInit ==
  /\ topic = ""
  /\ level_widget = <<>>
  /\ checked = {}
  /\ chat_prompt = ""
  /\ shown = {}
  /\ responses = <<>>
  /\ prereq_levels = <<>>
  /\ messages = <<>>
  /\ pc = "idle"
  /\ selected_subtopics = <<>>
  /\ error_shown = FALSE
  /\ warning_shown = FALSE
  /\ invoked = [s \in {"prerequisites", "subtopics", "roadmap", "content",
                       "resources", "chat"} |-> 0]
  /\ succeeded = [s \in {"prerequisites", "subtopics", "roadmap", "content",
                         "resources", "chat"} |-> 0]
  /\ prompt_topic = <<>>
  /\ runs = 0

NoResult == [val |-> EmptyDict, warned |-> FALSE]

ParseInit ==
  /\ SessionInit
  /\ prefix \in TextsUpTo(MaxPrefix)
  /\ body \in Bodies
  /\ suffix \in TextsUpTo(MaxSuffix)
  /\ result = NoResult
  /\ ppc = "ready"

\* the text handed to parse_json_response
response == prefix \o body \o suffix

Normalize ==
  /\ ppc = "ready"
  /\ result' = parse_json_response(response)
  /\ ppc' = "done"
  /\ UNCHANGED <<prefix, body, suffix>>
  /\ UNCHANGED <<widget_vars, session_vars, llm_vars, script_vars>>

ParseNext == Normalize

SpecParse == ParseInit /\ [][ParseNext]_vars

\* ------------------------------------------------------------------------
\* The session: user actions
\* ------------------------------------------------------------------------
Stages == {"prerequisites", "subtopics", "roadmap", "content", "resources", "chat"}

Topics == {"T1", "T2"}

Levels == {"Beginner", "Intermediate", "Advanced"}

Questions == {"q"}

\* a user interaction makes Streamlit run the script again from the top
StartRun ==
  /\ pc = "idle"
  /\ runs < MaxRuns
  /\ runs' = runs + 1
  /\ pc' = "start"
  /\ shown' = {}
  /\ error_shown' = FALSE
  /\ warning_shown' = FALSE
  /\ selected_subtopics' = <<>>
  /\ UNCHANGED <<session_vars, llm_vars, parse_vars>>

\* the user types a topic (or clears the field)
EnterTopic ==
  /\ \E t \in (Topics \cup {""}) \ {topic} : topic' = t
  /\ StartRun
  /\ UNCHANGED <<level_widget, checked, chat_prompt>>

\* the value a selectbox returns: the first option until the user picks one
WidgetLevel(n) ==
  IF n \in DOMAIN level_widget THEN level_widget[n] ELSE "Beginner"

\* the user picks another level in a selectbox of the page
SelectLevel ==
  /\ \E n \in DOMAIN prereq_levels, l \in Levels :
       /\ <<"prereq_level", n>> \in shown
       /\ l # WidgetLevel(n)
       /\ level_widget' = Put(level_widget, n, l)
  /\ StartRun
  /\ UNCHANGED <<topic, checked, chat_prompt>>

\* the user ticks or unticks a checkbox of the page
ToggleSubtopic ==
  /\ \E s \in {w[2] : w \in {x \in shown : x[1] = "subtopic"}} :
       checked' = IF s \in checked THEN checked \ {s} ELSE checked \cup {s}
  /\ StartRun
  /\ UNCHANGED <<topic, level_widget, chat_prompt>>

\* the user submits a message in the chat input of the page
SendChat ==
  /\ <<"chat_input", "">> \in shown
  /\ \E q \in Questions : chat_prompt' = q
  /\ StartRun
  /\ UNCHANGED <<topic, level_widget, checked>>

\* the user reloads the page without touching a widget
Rerun ==
  /\ StartRun
  /\ UNCHANGED <<topic, level_widget, checked, chat_prompt>>

\* ------------------------------------------------------------------------
\* The session: how a run of main() moves on or ends
\* ------------------------------------------------------------------------
\* the script goes on to its next block
Continue(next, shownNow, selectedNow) ==
  /\ pc' = next
  /\ shown' = shownNow
  /\ selected_subtopics' = selectedNow
  /\ UNCHANGED <<level_widget, checked, chat_prompt>>

\* the script returns; Streamlit drops the state of the widgets it did not
\* render, and the chat input is empty until the next submission
EndRun(shownNow) ==
  /\ pc' = "idle"
  /\ shown' = shownNow
  /\ selected_subtopics' = <<>>
  /\ level_widget' =
       [n \in {m \in DOMAIN level_widget : <<"prereq_level", m>> \in shownNow}
          |-> level_widget[n]]
  /\ checked' = {s \in checked : <<"subtopic", s>> \in shownNow}
  /\ chat_prompt' = ""

\* except Exception as e: st.error(...); st.info(...)
Except(shownNow) ==
  /\ error_shown' = TRUE
  /\ EndRun(shownNow)

\* the outcomes of llm.invoke: a reply, or an exception
Outcomes(replies) ==
  {[ok |-> TRUE, content |-> r] : r \in replies}
    \cup {[ok |-> FALSE, content |-> <<>>]}

\* the presence check left out
Memoized_Never(stage) == FALSE

\* 'stage' in st.session_state.responses
Memoized(stage) == stage \in DOMAIN responses

\* the assignment moved out of the try block's reach: a default is stored
\* when llm.invoke raises
StoredAfter_Always(stage, o) ==
  Put(responses, stage, parse_json_response(o.content).val)

\* st.session_state.responses after the call of a stage: the assignment is
\* not reached when llm.invoke raises
StoredAfter(stage, o) ==
  IF o.ok THEN Put(responses, stage, parse_json_response(o.content).val)
          ELSE responses

\* if 'stage' not in responses: invoke, parse, store
Generate(stage, replies, next) ==
  /\ IF Memoized(stage)
       THEN /\ Continue(next, shown, selected_subtopics)
            /\ UNCHANGED <<responses, llm_vars, error_shown, warning_shown>>
       ELSE \E o \in Outcomes(replies) :
              /\ invoked' = [invoked EXCEPT ![stage] = @ + 1]
              /\ responses' = StoredAfter(stage, o)
              /\ IF o.ok
                   THEN /\ succeeded' = [succeeded EXCEPT ![stage] = @ + 1]
                        /\ prompt_topic' = Put(prompt_topic, stage, topic)
                        /\ warning_shown' =
                             (warning_shown \/ parse_json_response(o.content).warned)
                        /\ Continue(next, shown, selected_subtopics)
                        /\ UNCHANGED error_shown
                   ELSE /\ Except(shown)
                        /\ UNCHANGED <<succeeded, prompt_topic, warning_shown>>
  /\ UNCHANGED <<topic, prereq_levels, messages, runs, parse_vars>>

\* ------------------------------------------------------------------------
\* The session: the blocks of main()
\* ------------------------------------------------------------------------
PrereqReplies ==
  { PrereqText(PrereqItem("a", "a") \o PrereqItem("b", "b")),
    <<"w", " ">> \o PrereqText(PrereqItem("a", "b")) \o <<" ", "w">>,
    PrereqText(PrereqItem("a", "a") \o PrereqItem("a", "b")),
    PrereqText(PrereqItem("a", "a") \o <<"{", "topic", "b", "}">>),
    <<"{", "prerequisites", "[">>,
    <<"w">>,
    <<"[", "a", "]">> }

SubtopicReplies ==
  { SubtopicsText(<<"a", "b">>),
    <<"fence_json">> \o SubtopicsText(<<"a">>) \o <<"fence">>,
    SubtopicsText(<<"a", "a">>),
    <<"w">> }

RoadmapReplies ==
  { RoadmapText(WeekItem),
    RoadmapText(<<"{", "week", "a", "}">>),
    <<"w", "roadmap">> }

ContentReplies == {<<"w">>}

ResourceReplies ==
  { ResourcesText,
    <<"{", "papers", "[", "{", "title", "a", "authors", "a", "link", "a", "}", "]", "}">>,
    <<"{", "textbooks">> }

ChatReplies == {<<"w">>}

\* a set, in some order
RECURSIVE SetToSeq(_)
SetToSeq(S) ==
  IF S = {} THEN <<>>
  ELSE LET x == CHOOSE y \in S : TRUE IN <<x>> \o SetToSeq(S \ {x})

\* for x in v: the elements of a list, the keys of a dict, the characters
\* of a string (an atom stands for a one-character string)
Iterate(v) ==
  IF IsList(v) THEN v.v
  ELSE IF IsAtom(v) THEN <<v>>
  ELSE [i \in 1..Cardinality(DOMAIN v.v) |-> Atom(SetToSeq(DOMAIN v.v)[i])]

\* d.get(key): None is falsy
GetTruthy(d, key) == Has(d, key) /\ Truthy(d.v[key])

\* topic is non-empty (if topic:), and initialize_llm returned
Start ==
  /\ pc = "start"
  /\ IF topic # ""
       THEN Continue("prerequisites", shown, selected_subtopics)
       ELSE EndRun(shown)
  /\ UNCHANGED <<topic, session_vars, llm_vars, error_shown, warning_shown,
                 runs, parse_vars>>

\* initialize_llm raised: st.error, return
InitializeFails ==
  /\ pc = "start"
  /\ Except(shown)
  /\ UNCHANGED <<topic, session_vars, llm_vars, warning_shown, runs, parse_vars>>

Prerequisites ==
  /\ pc = "prerequisites"
  /\ Generate("prerequisites", PrereqReplies, "assessment")

\* the loop over prereqs_data["prerequisites"]: one selectbox and one entry
\* of prereq_levels per prerequisite, until an item raises (it is no dict,
\* lacks 'topic' or 'level', repeats a widget key, or its topic cannot be a
\* dict key)
RECURSIVE AssessLoop(_, _, _)
AssessLoop(items, i, acc) ==
  IF i > Len(items) THEN acc
  ELSE LET prereq == items[i]
       IN  IF \/ ~IsDict(prereq)
              \/ ~Has(prereq, "topic")
              \/ ~Has(prereq, "level")
              \/ ~IsAtom(prereq.v["topic"])
             THEN [acc EXCEPT !.ok = FALSE]
             ELSE LET n == prereq.v["topic"].v
                  IN  IF <<"prereq_level", n>> \in acc.shown
                        THEN [acc EXCEPT !.ok = FALSE]
                        ELSE AssessLoop(items, i + 1,
                               [levels |-> Put(acc.levels, n, WidgetLevel(n)),
                                shown |-> acc.shown \cup {<<"prereq_level", n>>},
                                ok |-> TRUE])

\* the loop stops after the first prerequisite
Assess_FirstOnly(prereqs_data) ==
  IF ~IsDict(prereqs_data) THEN [levels |-> prereq_levels, shown |-> shown, ok |-> FALSE]
  ELSE IF ~GetTruthy(prereqs_data, "prerequisites")
    THEN [levels |-> prereq_levels, shown |-> shown, ok |-> TRUE]
  ELSE AssessLoop(SubSeq(Iterate(prereqs_data.v["prerequisites"]), 1, 1), 1,
                  [levels |-> prereq_levels, shown |-> shown, ok |-> TRUE])

\* what the assessment block does to prereq_levels and the page
Assess(prereqs_data) ==
  IF ~IsDict(prereqs_data) THEN [levels |-> prereq_levels, shown |-> shown, ok |-> FALSE]
  ELSE IF ~GetTruthy(prereqs_data, "prerequisites")
    THEN [levels |-> prereq_levels, shown |-> shown, ok |-> TRUE]
  ELSE AssessLoop(Iterate(prereqs_data.v["prerequisites"]), 1,
                  [levels |-> prereq_levels, shown |-> shown, ok |-> TRUE])

Assessment ==
  /\ pc = "assessment"
  /\ LET r == Assess(responses["prerequisites"])
     IN  /\ prereq_levels' = r.levels
         /\ IF r.ok
              THEN /\ Continue("subtopics", r.shown, selected_subtopics)
                   /\ UNCHANGED error_shown
              ELSE Except(r.shown)
  /\ UNCHANGED <<topic, responses, messages, llm_vars, warning_shown, runs,
                 parse_vars>>

Subtopics ==
  /\ pc = "subtopics"
  /\ Generate("subtopics", SubtopicReplies, "selection")

\* the loop over subtopics_data["subtopics"]: one checkbox per subtopic,
\* until one raises (its label is no string, or it repeats a widget key)
RECURSIVE SelectLoop(_, _, _)
SelectLoop(items, i, acc) ==
  IF i > Len(items) THEN acc
  ELSE LET subtopic == items[i]
       IN  IF ~IsAtom(subtopic) \/ <<"subtopic", subtopic.v>> \in acc.shown
             THEN [acc EXCEPT !.ok = FALSE]
             ELSE SelectLoop(items, i + 1,
                    [selected |-> IF subtopic.v \in checked
                                    THEN Append(acc.selected, subtopic.v)
                                    ELSE acc.selected,
                     shown |-> acc.shown \cup {<<"subtopic", subtopic.v>>},
                     ok |-> TRUE])

\* the guard on selected_subtopics left out
AfterSelection_Always(selected) == "roadmap"

\* if selected_subtopics:
AfterSelection(selected) == IF selected # <<>> THEN "roadmap" ELSE "chat"

Selection ==
  /\ pc = "selection"
  /\ LET subtopics_data == responses["subtopics"]
     IN  IF ~IsDict(subtopics_data) THEN Except(shown)
         ELSE IF ~GetTruthy(subtopics_data, "subtopics")
           THEN /\ Continue("chat", shown, <<>>)
                /\ UNCHANGED error_shown
         ELSE LET r == SelectLoop(Iterate(subtopics_data.v["subtopics"]), 1,
                                  [selected |-> <<>>, shown |-> shown, ok |-> TRUE])
              IN  IF r.ok
                    THEN /\ Continue(AfterSelection(r.selected), r.shown, r.selected)
                         /\ UNCHANGED error_shown
                    ELSE Except(r.shown)
  /\ UNCHANGED <<topic, session_vars, llm_vars, warning_shown, runs, parse_vars>>

Roadmap ==
  /\ pc = "roadmap"
  /\ Generate("roadmap", RoadmapReplies, "roadmap_display")

\* every item of d.get(key, []) is a dict with these keys
ItemsHave(d, key, fields) ==
  LET xs == IF Has(d, key) THEN Iterate(d.v[key]) ELSE <<>>
  IN  \A i \in 1..Len(xs) : IsDict(xs[i]) /\ fields \subseteq DOMAIN xs[i].v

\* the roadmap is displayed without an exception
RoadmapDisplays(roadmap_data) ==
  /\ IsDict(roadmap_data)
  /\ GetTruthy(roadmap_data, "roadmap") =>
       ItemsHave(roadmap_data, "roadmap",
                 {"week", "hours_per_week", "goals", "activities", "exercises",
                  "project"})

RoadmapDisplay ==
  /\ pc = "roadmap_display"
  /\ IF RoadmapDisplays(responses["roadmap"])
       THEN /\ Continue("content", shown, selected_subtopics)
            /\ UNCHANGED error_shown
       ELSE Except(shown)
  /\ UNCHANGED <<topic, session_vars, llm_vars, warning_shown, runs, parse_vars>>

\* the content summary: requested and written out in every run that gets here
Content ==
  /\ pc = "content"
  /\ \E o \in Outcomes(ContentReplies) :
       /\ invoked' = [invoked EXCEPT !["content"] = @ + 1]
       /\ IF o.ok
            THEN /\ succeeded' = [succeeded EXCEPT !["content"] = @ + 1]
                 /\ Continue("resources", shown, selected_subtopics)
                 /\ UNCHANGED error_shown
            ELSE /\ Except(shown)
                 /\ UNCHANGED succeeded
  /\ UNCHANGED <<topic, session_vars, prompt_topic, warning_shown, runs, parse_vars>>

Resources ==
  /\ pc = "resources"
  /\ Generate("resources", ResourceReplies, "resources_display")

\* the resources are displayed without an exception; the papers loop reads
\* book, the variable of the textbooks loop
ResourcesDisplays(resources_data) ==
  Truthy(resources_data) =>
    /\ IsDict(resources_data)
    /\ ItemsHave(resources_data, "textbooks", {"title", "link", "author"})
    /\ ItemsHave(resources_data, "papers", {"title", "authors"})
    /\ GetTruthy(resources_data, "papers") => GetTruthy(resources_data, "textbooks")
    /\ ItemsHave(resources_data, "courses", {"title", "link", "platform"})
    /\ ItemsHave(resources_data, "interactive_platforms",
                 {"name", "link", "description"})

ResourcesDisplay ==
  /\ pc = "resources_display"
  /\ IF ResourcesDisplays(responses["resources"])
       THEN /\ Continue("chat", shown, selected_subtopics)
            /\ UNCHANGED error_shown
       ELSE Except(shown)
  /\ UNCHANGED <<topic, session_vars, llm_vars, warning_shown, runs, parse_vars>>

\* messages after display_chatbot: the user turn is appended before
\* llm.invoke, the assistant turn after it returned
MessagesAfter(prompt, o) ==
  LET asked == Append(messages, [role |-> "user", content |-> prompt])
  IN  IF o.ok THEN Append(asked, [role |-> "assistant", content |-> o.content])
              ELSE asked

\* if any(prereq_levels): display_chatbot(llm, topic, context)
Chat ==
  /\ pc = "chat"
  /\ IF DOMAIN prereq_levels = {}
       THEN /\ EndRun(shown)
            /\ UNCHANGED <<messages, invoked, succeeded, error_shown>>
       ELSE IF chat_prompt = ""
         THEN /\ EndRun(shown \cup {<<"chat_input", "">>})
              /\ UNCHANGED <<messages, invoked, succeeded, error_shown>>
         ELSE \E o \in Outcomes(ChatReplies) :
                /\ messages' = MessagesAfter(chat_prompt, o)
                /\ invoked' = [invoked EXCEPT !["chat"] = @ + 1]
                /\ IF o.ok
                     THEN /\ succeeded' = [succeeded EXCEPT !["chat"] = @ + 1]
                          /\ EndRun(shown \cup {<<"chat_input", "">>})
                          /\ UNCHANGED error_shown
                     ELSE /\ Except(shown \cup {<<"chat_input", "">>})
                          /\ UNCHANGED succeeded
  /\ UNCHANGED <<topic, responses, prereq_levels, prompt_topic, warning_shown,
                 runs, parse_vars>>

\* ------------------------------------------------------------------------
\* The session: Spec
\* ------------------------------------------------------------------------
Init ==
  /\ SessionInit
  /\ prefix = <<>>
  /\ body = <<>>
  /\ suffix = <<>>
  /\ result = NoResult
  /\ ppc = "done"

Next ==
  \/ EnterTopic
  \/ SelectLevel
  \/ ToggleSubtopic
  \/ SendChat
  \/ Rerun
  \/ Start
  \/ InitializeFails
  \/ Prerequisites
  \/ Assessment
  \/ Subtopics
  \/ Selection
  \/ Roadmap
  \/ RoadmapDisplay
  \/ Content
  \/ Resources
  \/ ResourcesDisplay
  \/ Chat

Spec == Init /\ [][Next]_vars

\* ------------------------------------------------------------------------
\* Properties of the normalizer (checked under SpecParse)
\* ------------------------------------------------------------------------
\* no part of the text is a JSON document
NoDecodableJson(t) ==
  \A i \in 1..Len(t), j \in 1..Len(t) : i <= j => ~JsonLoads(SubSeq(t, i, j)).ok

\* C2: for every text with no decodable JSON in it, parse_json_response
\* returns a non-empty stage default and emits the parse-failure warning.
C2_DefaultAndWarning ==
  (ppc = "done" /\ NoDecodableJson(response)) =>
    (result.warned /\ Truthy(result.val))

\* the value that json.loads yields for the text, directly or after the
\* extraction of its part from the first opening brace on
Decoded(t) ==
  IF JsonLoads(Strip(t)).ok THEN JsonLoads(Strip(t))
  ELSE IF Contains(t, "{") THEN JsonLoads(extract_json_from_text(Strip(t)))
  ELSE [ok |-> FALSE, val |-> EmptyDict]

\* the structure has the required top-level key of some stage
HasRequiredKey(x) ==
  /\ IsDict(x)
  /\ \/ Has(x, "prerequisites")
     \/ Has(x, "subtopics")
     \/ Has(x, "roadmap")
     \/ {"textbooks", "papers", "youtube", "courses", "interactive_platforms"}
          \subseteq DOMAIN x.v

\* C3 as stated: for every well-formed stage object J and every prefix and
\* suffix, parse_json_response(prefix + J + suffix) returns what
\* parse_json_response(J) returns.
C3_AnyAffix ==
  (ppc = "done" /\ body \in StageObjects) =>
    result.val = parse_json_response(body).val

\* the prefix has no opening brace, the suffix has no closing brace, and the
\* whole text is not itself a JSON document other than J
PlainAffixes ==
  /\ ~Contains(prefix, "{")
  /\ ~Contains(suffix, "}")
  /\ JsonLoads(Strip(response)).ok =>
       JsonLoads(Strip(response)).val = JsonLoads(body).val

\* C3, amended: for every well-formed stage object J, every prefix without
\* an opening brace and every suffix without a closing brace, where the whole
\* text is not itself another JSON document, parse_json_response(prefix + J +
\* suffix) returns J, without a warning, and the extraction from the first
\* opening brace to the last closing brace of the text yields J.
C3_PlainAffix ==
  (ppc = "done" /\ body \in StageObjects /\ PlainAffixes) =>
    /\ result = [val |-> JsonLoads(body).val, warned |-> FALSE]
    /\ extract_json_from_text(Strip(response)) = body

\* a stage object in a json-tagged fence was normalized to the object
C3_Witness ==
  /\ ppc = "done"
  /\ body \in StageObjects
  /\ prefix = <<"w", "fence_json">>
  /\ suffix = <<"fence">>
  /\ ~JsonLoads(Strip(response)).ok
  /\ result.val = JsonLoads(body).val

\* C4: whenever the text decodes to a structure that lacks the required
\* top-level key of every stage, the result is a stage default, which has
\* the key.
C4_ShapeChecked ==
  (ppc = "done" /\ Decoded(response).ok /\ ~HasRequiredKey(Decoded(response).val)) =>
    (result.val \in {PrerequisitesDefault, SubtopicsDefault, ResourcesDefault}
      /\ HasRequiredKey(result.val))

\* ------------------------------------------------------------------------
\* Properties of the session (checked under Spec)
\* ------------------------------------------------------------------------
GenStages == {"prerequisites", "subtopics", "roadmap", "content", "resources"}

StoredStages == {"prerequisites", "subtopics", "roadmap", "resources"}

\* C1: once the call of a stage has succeeded, no further call is issued for
\* that stage, whatever the user does.
C1_OncePerStage ==
  [][\A s \in GenStages : succeeded[s] >= 1 => invoked'[s] = invoked[s]]_vars

\* the prerequisites of the stored result
StoredPrereqs ==
  IF /\ Memoized("prerequisites")
     /\ IsDict(responses["prerequisites"])
     /\ GetTruthy(responses["prerequisites"], "prerequisites")
    THEN Iterate(responses["prerequisites"].v["prerequisites"])
    ELSE <<>>

\* prereq_levels has an entry for the prerequisite
Rated(prereq) ==
  /\ IsDict(prereq)
  /\ Has(prereq, "topic")
  /\ IsAtom(prereq.v["topic"])
  /\ prereq.v["topic"].v \in DOMAIN prereq_levels

\* C5: the subtopic call has been issued, or a subtopic checkbox is on the
\* page, only if prereq_levels has an entry for every prerequisite of the
\* stored result: n prerequisites, n entries.
C5_RatedBeforeSubtopics ==
  (invoked["subtopics"] > 0 \/ \E w \in shown : w[1] = "subtopic") =>
    /\ \A i \in 1..Len(StoredPrereqs) : Rated(StoredPrereqs[i])
    /\ Cardinality(DOMAIN prereq_levels) >= Len(StoredPrereqs)

\* two prerequisites were returned and rated, and subtopics were requested
C5_Witness ==
  /\ invoked["subtopics"] > 0
  /\ Len(StoredPrereqs) = 2
  /\ DOMAIN prereq_levels = {"a", "b"}
  /\ \E w \in shown : w[1] = "subtopic"

\* this step issued the call of stage s, and the call raised
Failed(s) == invoked'[s] = invoked[s] + 1 /\ succeeded'[s] = succeeded[s]

\* C6: when the call of a stage raises, responses is left as it was (the
\* stage absent, the earlier stages unchanged), an error is shown and the
\* run ends; and whenever the script comes to a stage whose result is absent
\* it issues the call (again).
C6_FailureIsRetryable ==
  [][\A s \in Stages :
       /\ Failed(s) =>
            /\ responses' = responses
            /\ s \notin DOMAIN responses'
            /\ error_shown'
            /\ pc' = "idle"
       /\ (pc = s /\ s \in StoredStages /\ s \notin DOMAIN responses) =>
            invoked'[s] = invoked[s] + 1]_vars

\* the roadmap call raised once, with prerequisites and subtopics stored, and
\* a later run issued it again and stored its result
C6_Witness ==
  /\ invoked["roadmap"] = 2
  /\ succeeded["roadmap"] = 1
  /\ DOMAIN responses = {"prerequisites", "subtopics", "roadmap"}

\* C7: a roadmap, content or resources call is issued only with a non-empty
\* topic and at least one subtopic ticked on the page.
C7_NeedsSelection ==
  [][\A s \in {"roadmap", "content", "resources"} :
       invoked'[s] # invoked[s] =>
         /\ topic # ""
         /\ \E x \in checked : <<"subtopic", x>> \in shown]_vars

\* the three calls were issued, and a later run with nothing ticked went by
\* without one
C7_Witness ==
  /\ invoked["roadmap"] = 1
  /\ invoked["content"] = 1
  /\ invoked["resources"] = 1
  /\ checked = {}
  /\ pc = "idle"
  /\ runs = 3

\* C8: between runs the transcript is a sequence of pairs, a user turn
\* followed by an assistant turn.
C8_Alternates ==
  pc = "idle" =>
    /\ Len(messages) % 2 = 0
    /\ \A i \in 1..Len(messages) :
         messages[i].role = IF i % 2 = 1 THEN "user" ELSE "assistant"

\* C9: after a run with a non-empty topic, every stored stage result was
\* generated for that topic.
C9_DataForCurrentTopic ==
  (pc = "idle" /\ topic # "") =>
    \A s \in DOMAIN responses : prompt_topic[s] = topic

\* the stored results respect the order of the stages
StageOrder ==
  /\ Memoized("resources") => Memoized("roadmap")
  /\ Memoized("roadmap") => Memoized("subtopics")
  /\ Memoized("subtopics") => Memoized("prerequisites")

\* C10: resources present implies roadmap present, roadmap implies
\* subtopics, subtopics implies prerequisites; and a stored result is never
\* removed or overwritten.
C10_OrderedAndMonotone ==
  [][/\ StageOrder'
     /\ \A s \in DOMAIN responses :
          s \in DOMAIN responses' /\ responses'[s] = responses[s]]_vars

\* all four results are stored and a further run has gone by
C10_Witness ==
  /\ DOMAIN responses = StoredStages
  /\ runs = 3
  /\ pc = "idle"

====
